---------------------------- MODULE Spec2Model ----------------------------
(***************************************************************************)
(* route-recognizer: Router (src/src/lib.rs) over NFA (src/src/nfa.rs).    *)
(*                                                                         *)
(* A Rust string is modelled as the sequence of its characters, each       *)
(* character a one-element TLA+ string; Width gives the number of bytes    *)
(* of its UTF-8 encoding, because the library slices strings by byte       *)
(* offset.  A failed task (fail!, an index out of range, unwrap of None)   *)
(* is the outcome "Fault".                                                 *)
(***************************************************************************)
EXTENDS Integers, Sequences, FiniteSets, TLC

\* ------------------------------------------------------------------ bounds

\* Number of Router.add calls of a run.
MaxAdds == 2

\* Length, in characters, of the paths handed to Router.recognize.
MaxPathLen == 3

\* ------------------------------------------------------------- characters

Slash == "/"
Colon == ":"
\* U+00E9, two bytes in UTF-8.
EAcute == "é"

\* Bytes of the UTF-8 encoding of a character.
Width(c) == IF c = EAcute THEN 2 ELSE 1

\* str::len: the length in bytes.
ByteLen(s) == LET RECURSIVE B(_)
                  B(k) == IF k = 0 THEN 0 ELSE B(k - 1) + Width(s[k])
              IN  B(Len(s))

\* Byte offset of the boundary after the first k characters of s.
ByteOffset(s, k) == ByteLen(SubSeq(s, 1, k))

\* str::is_char_boundary.
is_char_boundary(s, b) == \E k \in 0..Len(s) : ByteOffset(s, k) = b

\* str::slice(begin, end) by byte offsets: fails unless both are character
\* boundaries of s with begin <= end.  A begin of -1 stands for the wrapped
\* uint of "0 - 1", which lies beyond every string.
slice_ok(s, begin, end) ==
  /\ begin <= end
  /\ is_char_boundary(s, begin)
  /\ is_char_boundary(s, end)

slice(s, begin, end) ==
  LET kb == CHOOSE k \in 0..Len(s) : ByteOffset(s, k) = begin
      ke == CHOOSE k \in 0..Len(s) : ByteOffset(s, k) = end
  IN  SubSeq(s, kb + 1, ke)

\* str::split('/'): the pieces between separators; "" gives one empty piece.
RECURSIVE split(_)
split(s) ==
  LET hits == {k \in 1..Len(s) : s[k] = Slash} IN
  IF hits = {} THEN <<s>>
  ELSE LET k == CHOOSE h \in hits : \A g \in hits : h <= g
       IN  <<SubSeq(s, 1, k - 1)>> \o split(SubSeq(s, k + 1, Len(s)))

\* A strip that leaves the separator in place.
strip_never(s) == s

\* The leading-separator strip of add and recognize, for a non-empty string:
\* if s.char_at(0) == '/' { s = s.slice_from(1) }.
strip(s) == IF s[1] = Slash THEN SubSeq(s, 2, Len(s)) ELSE s

\* --------------------------------------------------------- CharacterClass

any == [valid |-> FALSE, set |-> {}]
valid_char(c) == [valid |-> TRUE, set |-> {c}]
invalid_char(c) == [valid |-> FALSE, set |-> {c}]

matches(class, c) == IF class.valid THEN c \in class.set ELSE c \notin class.set

\* ------------------------------------------------------------ State, NFA

\* Option<T>: None is <<>>, Some(v) is <<v>>.
None == <<>>
Some(v) == <<v>>

State_new(index, chars) ==
  [index |-> index, chars |-> chars, next_states |-> <<>>,
   acceptance |-> FALSE, start_capture |-> FALSE, end_capture |-> FALSE,
   metadata |-> None]

\* NFA::new: the arena holds the root, state 0, which matches any character.
NFA_new == <<State_new(0, any)>>

\* NFA::get: state i is stored at position i + 1 of the arena.
get(n, i) == n[i + 1]

\* NFA::new_state.
new_state(n, chars) == [nfa |-> Append(n, State_new(Len(n), chars)), state |-> Len(n)]

\* A put_state with the parent and the child taken for each other.
put_state_swapped(n, index, child) ==
  [n EXCEPT ![child + 1].next_states = Append(@, index)]

\* NFA::put_state: push child, with no check for a duplicate.
put_state(n, index, child) ==
  [n EXCEPT ![index + 1].next_states = Append(@, child)]

\* A put that allocates a state without looking for an equal successor.
put_always_new(n, index, chars) ==
  LET made == new_state(n, chars)
  IN  [nfa |-> put_state(made.nfa, index, made.state), state |-> made.state]

\* NFA::put: the first successor whose class equals chars, else a new state.
put(n, index, chars) ==
  LET ns == get(n, index).next_states
      hits == {k \in 1..Len(ns) : get(n, ns[k]).chars = chars}
  IN  IF hits # {}
      THEN [nfa |-> n, state |-> ns[CHOOSE h \in hits : \A g \in hits : h <= g]]
      ELSE LET made == new_state(n, chars)
           IN  [nfa |-> put_state(made.nfa, index, made.state), state |-> made.state]

acceptance(n, index) == [n EXCEPT ![index + 1].acceptance = TRUE]
start_capture(n, index) == [n EXCEPT ![index + 1].start_capture = TRUE]
end_capture(n, index) == [n EXCEPT ![index + 1].end_capture = TRUE]
metadata(n, index, m) == [n EXCEPT ![index + 1].metadata = Some(m)]

\* ------------------------------------------------------- Router: add

\* A metadata that starts with one static segment counted.
Metadata_one_static == [statics |-> 1, dynamics |-> 0, stars |-> 0, param_names |-> <<>>]

Metadata_new == [statics |-> 0, dynamics |-> 0, stars |-> 0, param_names |-> <<>>]

\* process_static_segment: one put per character of the segment.
RECURSIVE process_static_segment(_, _, _)
process_static_segment(segment, n, state) ==
  IF segment = <<>> THEN [nfa |-> n, state |-> state]
  ELSE LET p == put(n, state, valid_char(Head(segment)))
       IN  process_static_segment(Tail(segment), p.nfa, p.state)

\* A dynamic segment whose state ends no capture.
process_dynamic_segment_unended(n, state) ==
  LET p == put(n, state, invalid_char(Slash))
      looped == put_state(p.nfa, p.state, p.state)
  IN  [nfa |-> start_capture(looped, p.state), state |-> p.state]

\* A dynamic segment whose state starts no capture.
process_dynamic_segment_unstarted(n, state) ==
  LET p == put(n, state, invalid_char(Slash))
      looped == put_state(p.nfa, p.state, p.state)
  IN  [nfa |-> end_capture(looped, p.state), state |-> p.state]

\* process_dynamic_segment: a state for "not the separator", looping on itself,
\* that starts and ends a capture.
process_dynamic_segment(n, state) ==
  LET p == put(n, state, invalid_char(Slash))
      looped == put_state(p.nfa, p.state, p.state)
  IN  [nfa |-> end_capture(start_capture(looped, p.state), p.state), state |-> p.state]

\* The loop of Router.add over route.split('/').enumerate(), from segment i on.
RECURSIVE add_segments(_, _, _, _, _)
add_segments(segments, i, n, state, meta) ==
  IF i > Len(segments) THEN [nfa |-> n, state |-> state, metadata |-> meta]
  ELSE LET segment == segments[i]
           sep == IF i > 1 THEN put(n, state, valid_char(Slash))
                  ELSE [nfa |-> n, state |-> state]
       IN  IF Len(segment) > 0 /\ segment[1] = Colon
           THEN LET d == process_dynamic_segment(sep.nfa, sep.state)
                IN  add_segments(segments, i + 1, d.nfa, d.state,
                      [meta EXCEPT !.dynamics = @ + 1,
                                   !.param_names = Append(@, Tail(segment))])
           ELSE LET s == process_static_segment(segment, sep.nfa, sep.state)
                IN  add_segments(segments, i + 1, s.nfa, s.state,
                      [meta EXCEPT !.statics = @ + 1])

\* An insert that keeps the value a key already has.
insert_if_absent(map, key, value) ==
  [k \in DOMAIN map \cup {key} |-> IF k \in DOMAIN map THEN map[k] ELSE value]

\* TreeMap::insert.
insert(map, key, value) ==
  [k \in DOMAIN map \cup {key} |-> IF k = key THEN value ELSE map[k]]

\* An add that stores a handler but no metadata in the final state.
add_without_metadata(router, route, dest) ==
  IF route = <<>> THEN [fault |-> TRUE, router |-> router, state |-> 0]
  ELSE LET built == add_segments(split(strip(route)), 1, router.nfa, 0, Metadata_new)
       IN  [fault |-> FALSE,
            router |-> [nfa |-> acceptance(built.nfa, built.state),
                        handlers |-> insert(router.handlers, built.state, dest)],
            state |-> built.state]

\* Router.add(route, dest) on the router [nfa, handlers].  route.char_at(0)
\* fails on the empty string, before anything is changed.
add(router, route, dest) ==
  IF route = <<>> THEN [fault |-> TRUE, router |-> router, state |-> 0]
  ELSE LET built == add_segments(split(strip(route)), 1, router.nfa, 0, Metadata_new)
           accepted == acceptance(built.nfa, built.state)
       IN  [fault |-> FALSE,
            router |-> [nfa |-> metadata(accepted, built.state, built.metadata),
                        handlers |-> insert(router.handlers, built.state, dest)],
            state |-> built.state]

\* ------------------------------------------------- Metadata ordering

\* impl Ord for Metadata: more stars, then more dynamics, then more statics
\* is Less.
Metadata_cmp(self, other) ==
  IF self.stars > other.stars THEN "Less"
  ELSE IF self.stars < other.stars THEN "Greater"
  ELSE IF self.dynamics > other.dynamics THEN "Less"
  ELSE IF self.dynamics < other.dynamics THEN "Greater"
  ELSE IF self.statics > other.statics THEN "Less"
  ELSE IF self.statics < other.statics THEN "Greater"
  ELSE "Equal"

\* ------------------------------------------------------- NFA: process

Last(s) == s[Len(s)]

fork_trace(trace, state) == Append(trace, state.index)

\* NFA::process_char: for every trace in order, for every successor of its
\* last state in order, fork the trace when the successor matches c.
process_char(n, traces, c) ==
  LET RECURSIVE inner(_, _)
      inner(trace, k) ==
        LET ns == get(n, Last(trace)).next_states IN
        IF k > Len(ns) THEN <<>>
        ELSE (IF matches(get(n, ns[k]).chars, c)
              THEN <<fork_trace(trace, get(n, ns[k]))>> ELSE <<>>)
             \o inner(trace, k + 1)
      RECURSIVE outer(_)
      outer(t) == IF t > Len(traces) THEN <<>>
                  ELSE inner(traces[t], 1) \o outer(t + 1)
  IN  outer(1)

\* The loop of NFA::process over string.chars(), from character i on: the
\* run stops at the first character no trace can consume.
RECURSIVE process_chars(_, _, _, _)
process_chars(n, string, i, current) ==
  IF i > Len(string) THEN [ok |-> TRUE, traces |-> current]
  ELSE LET next_traces == process_char(n, current, string[i])
       IN  IF next_traces = <<>> THEN [ok |-> FALSE, traces |-> <<>>]
           ELSE process_chars(n, string, i + 1, next_traces)

\* The key closure Router.recognize hands to process:
\* |index| nfa.get(index).metadata.get_ref().
ord(n, index) == get(n, index).metadata

\* The comparator of two traces: the keys of their last states, compared by
\* Metadata's Ord.
sort(n, a, b) == Metadata_cmp(ord(n, Last(a))[1], ord(n, Last(b))[1])

\* A sort_by that leaves the traces in the order found.
sort_by_nothing(n, traces) == traces

\* returned.sort_by(sort): a stable ascending sort.  Each element is put
\* before the first one already placed that compares Greater than it.
sort_by(n, traces) ==
  LET place(sorted, x) ==
        LET after == {j \in 1..Len(sorted) : sort(n, sorted[j], x) = "Greater"}
            j == IF after = {} THEN Len(sorted) + 1
                 ELSE CHOOSE h \in after : \A g \in after : h <= g
        IN  SubSeq(sorted, 1, j - 1) \o <<x>> \o SubSeq(sorted, j, Len(sorted))
      RECURSIVE run(_)
      run(k) == IF k = 0 THEN <<>> ELSE place(run(k - 1), traces[k])
  IN  run(Len(traces))

\* The first of the sorted traces instead of the last.
pick_first(sorted) == sorted[1]

\* The trace NFA::process returns: the last one of the sorted traces.
pick(sorted) == Last(sorted)

\* NFA::extract_captures, from trace position pos (0-based) on, with the
\* open capture start_slice (an Option) and the captures made so far.
\* Offsets are trace positions, used as byte offsets into source.
RECURSIVE extract_from(_, _, _, _, _, _)
extract_from(n, source, trace, pos, start_slice, captures) ==
  LET end == Len(trace) - 1
      state_index == trace[pos + 1]
      state == get(n, state_index)
      started == IF start_slice = None /\ state.start_capture
                 THEN Some(pos - 1) ELSE start_slice
  IN  IF pos > end THEN [fault |-> FALSE, captures |-> captures]
      ELSE IF pos < end
      THEN IF state_index # trace[pos + 2] /\ state.end_capture
           THEN IF started = None \/ ~slice_ok(source, started[1], pos)
                THEN [fault |-> TRUE, captures |-> captures]
                ELSE extract_from(n, source, trace, pos + 1, None,
                       Append(captures, slice(source, started[1], pos)))
           ELSE extract_from(n, source, trace, pos + 1, started, captures)
      ELSE IF started # None /\ state.end_capture
           THEN IF ~slice_ok(source, started[1], ByteLen(source))
                THEN [fault |-> TRUE, captures |-> captures]
                ELSE [fault |-> FALSE,
                      captures |-> Append(captures,
                                     slice(source, started[1], ByteLen(source)))]
           ELSE [fault |-> FALSE, captures |-> captures]

extract_captures(n, source, trace) == extract_from(n, source, trace, 0, None, <<>>)

NoTransition(string) == <<"Couldn't process ", string>>
NoAcceptance == <<"The string was exhausted before reaching an acceptance state">>

Outcome(kind, state, captures, msg) ==
  [kind |-> kind, state |-> state, captures |-> captures, msg |-> msg]

\* The accepting traces of the last generation, in the order found.
accepting(n, traces) == SelectSeq(traces, LAMBDA t : get(n, Last(t)).acceptance)

\* NFA::process with the comparator of Router.recognize.
process(n, string) ==
  LET ran == process_chars(n, string, 1, <<<<0>>>>)
      returned == accepting(n, ran.traces)
  IN  IF ~ran.ok THEN Outcome("Err", 0, <<>>, NoTransition(string))
      ELSE IF returned = <<>> THEN Outcome("Err", 0, <<>>, NoAcceptance)
      ELSE IF Len(returned) > 1 /\ \E k \in 1..Len(returned) : ord(n, Last(returned[k])) = None
      THEN Outcome("Fault", 0, <<>>, <<>>)
      ELSE LET trace == pick(sort_by(n, returned))
               caps == extract_captures(n, string, trace)
           IN  IF caps.fault THEN Outcome("Fault", 0, <<>>, <<>>)
               ELSE Outcome("Ok", get(n, Last(trace)).index, caps.captures, <<>>)

\* ------------------------------------------------- Router: recognize

\* Params: a TreeMap from name to value; the empty map is <<>>.
Params_new == <<>>

\* The loop of recognize over the captures: the i-th capture is stored under
\* the i-th parameter name; param_names.get(i) fails beyond the names.
RECURSIVE pair_params(_, _, _, _)
pair_params(param_names, captures, i, map) ==
  IF i > Len(captures) THEN [fault |-> FALSE, map |-> map]
  ELSE IF i > Len(param_names) THEN [fault |-> TRUE, map |-> map]
  ELSE pair_params(param_names, captures, i + 1,
                   insert(map, param_names[i], captures[i]))

Result(kind, handler, params, state, captures, msg) ==
  [kind |-> kind, handler |-> handler, params |-> params, state |-> state,
   captures |-> captures, msg |-> msg]

NoHandler == "none"

Faulted == Result("Fault", NoHandler, Params_new, 0, <<>>, <<>>)

\* Router.recognize(path).  path.char_at(0) fails on the empty string.
recognize(router, path) ==
  IF path = <<>> THEN Faulted
  ELSE LET result == process(router.nfa, strip(path)) IN
       IF result.kind = "Fault" THEN Faulted
       ELSE IF result.kind = "Err"
       THEN Result("Err", NoHandler, Params_new, 0, <<>>, result.msg)
       ELSE LET meta == get(router.nfa, result.state).metadata
            IN  IF meta = None THEN Faulted
                ELSE LET paired == pair_params(meta[1].param_names, result.captures,
                                               1, Params_new)
                     IN  IF paired.fault \/ result.state \notin DOMAIN router.handlers
                         THEN Faulted
                         ELSE Result("Ok", router.handlers[result.state], paired.map,
                                     result.state, result.captures, <<>>)

\* ------------------------------------------------------ the program

VARIABLES
  nfa,       \* Router.nfa.states: the arena of states
  handlers,  \* Router.handlers: accepting state -> handler
  added,     \* history: the add calls that returned, in order
  last,      \* history: the last call, its argument and its outcome
  failed     \* the task has failed

vars == <<nfa, handlers, added, last, failed>>

\* The patterns handed to Router.add.
Routes ==
  { <<>>,
    <<Slash>>,
    <<Slash, Colon, "x">>,
    <<Slash, Colon>>,
    <<Slash, Colon, "x", Slash, "a">>,
    <<Slash, "a", Slash, Colon, "y">>,
    <<Slash, Colon, "x", Slash, Colon, "y">>,
    <<"a", Slash, "a">>,
    <<Slash, EAcute, Slash, Colon, "x">> }

\* The handlers handed to Router.add.
Handlers == {"h1", "h2"}

\* The characters of the paths handed to Router.recognize.
PathChars == {Slash, "a", EAcute}

Paths == UNION {[1..k -> PathChars] : k \in 0..MaxPathLen}

router == [nfa |-> nfa, handlers |-> handlers]

Call(op, arg, res) == [op |-> op, arg |-> arg, res |-> res]

\* Router::new.
Init ==
  /\ nfa = NFA_new
  /\ handlers = <<>>
  /\ added = <<>>
  /\ last = Call("new", <<>>, Result("Done", NoHandler, Params_new, 0, <<>>, <<>>))
  /\ failed = FALSE

\* router.add(route, dest)
Add(route, dest) ==
  /\ ~failed
  /\ Len(added) < MaxAdds
  /\ LET r == add(router, route, dest) IN
       /\ nfa' = r.router.nfa
       /\ handlers' = r.router.handlers
       /\ failed' = r.fault
       /\ added' = IF r.fault THEN added
                   ELSE Append(added, [route |-> route, dest |-> dest, state |-> r.state])
       /\ last' = Call("add", route,
                       IF r.fault THEN Faulted
                       ELSE Result("Done", dest, Params_new, r.state, <<>>, <<>>))

\* A recognize that takes the matched handler out of the table.
Recognize_taking(path) ==
  /\ ~failed
  /\ LET res == recognize(router, path) IN
       /\ last' = Call("recognize", path, res)
       /\ failed' = (res.kind = "Fault")
       /\ handlers' = [st \in DOMAIN handlers \ {res.state} |-> handlers[st]]
  /\ UNCHANGED <<nfa, added>>

\* router.recognize(path): the router is borrowed immutably.
Recognize(path) ==
  /\ ~failed
  /\ LET res == recognize(router, path) IN
       /\ last' = Call("recognize", path, res)
       /\ failed' = (res.kind = "Fault")
  /\ UNCHANGED <<nfa, handlers, added>>

\* The calls of a run.  A recognize call that follows another one starts
\* from the same router and reaches the same states as that one: the runs
\* taken here are those whose recognize calls each follow the construction
\* or an add.  NextCalls has the runs with recognize calls in a row.
Next ==
  \/ \E route \in Routes, dest \in Handlers : Add(route, dest)
  \/ \E path \in Paths : last.op # "recognize" /\ Recognize(path)

Spec == Init /\ [][Next]_vars

\* The patterns of the runs with recognize calls in a row.
CallRoutes ==
  { <<Slash>>,
    <<Slash, Colon, "x", Slash, "a">>,
    <<Slash, "a", Slash, Colon, "y">> }

NextCalls ==
  \/ \E route \in CallRoutes : Add(route, "h1")
  \/ \E path \in Paths : Recognize(path)

SpecCalls == Init /\ [][NextCalls]_vars

\* ------------------------------------------- what a match is (spec)

\* A string with one leading separator removed, if it has one.
Stripped(s) == IF s # <<>> /\ s[1] = Slash THEN Tail(s) ELSE s

Segments(s) == split(Stripped(s))

IsDynamic(segment) == segment # <<>> /\ segment[1] = Colon

\* A literal segment matches the identical text, a dynamic one any
\* non-empty text (a segment holds no separator).
SegmentMatches(pseg, iseg) == IF IsDynamic(pseg) THEN iseg # <<>> ELSE iseg = pseg

PatternMatches(route, path) ==
  LET ps == Segments(route)
      is == Segments(path)
  IN  /\ Len(ps) = Len(is)
      /\ \A i \in 1..Len(ps) : SegmentMatches(ps[i], is[i])

\* The registrations, by position in added, whose pattern matches path.
Matching(path) == {k \in 1..Len(added) : PatternMatches(added[k].route, path)}

Recognized == last.op = "recognize"

\* C1: recognize(path) returns a match if and only if path matches a
\* registered pattern segment by segment, and returns an error otherwise.
C1_MatchIffPattern ==
  Recognized =>
    /\ last.res.kind \in {"Ok", "Err"}
    /\ last.res.kind = "Ok" <=> Matching(last.arg) # {}

\* C1 apart from the failed calls: a match is never returned for a path no
\* pattern matches, and a call that returns gives a match for every path
\* some pattern matches.
C1_NoFalsePositive ==
  Recognized /\ last.res.kind = "Ok" => Matching(last.arg) # {}

C1_NoFalseNegative ==
  Recognized /\ last.res.kind = "Err" => Matching(last.arg) = {}

\* The number of dynamic segments of a pattern.
Dynamics(route) ==
  Cardinality({i \in 1..Len(Segments(route)) : IsDynamic(Segments(route)[i])})

\* The handler a pattern is registered with: that of its last registration.
HandlerOf(route) ==
  LET ks == {k \in 1..Len(added) : added[k].route = route}
  IN  added[CHOOSE k \in ks : \A j \in ks : j <= k].dest

\* The patterns that match path.
MatchingRoutes(path) == {added[k].route : k \in Matching(path)}

\* The matching pattern with strictly fewer dynamic segments than every
\* other matching pattern, if there is one (a set of at most one pattern).
MostSpecific(path) ==
  {r \in MatchingRoutes(path) :
     \A q \in MatchingRoutes(path) \ {r} : Dynamics(r) < Dynamics(q)}

Ambiguous(path) == Cardinality(MatchingRoutes(path)) > 1

\* C2: when several patterns match and one has strictly fewer dynamic
\* segments than every other, recognize returns the handler of that one,
\* in whatever order the patterns were added.
C2_FewestDynamicsWins ==
  Recognized /\ Ambiguous(last.arg) =>
    \A r \in MostSpecific(last.arg) :
      last.res.kind = "Ok" /\ last.res.handler = HandlerOf(r)

\* C2 apart from the failed calls: a match that is returned carries the
\* handler of the pattern with the fewest dynamic segments.
C2_FewestDynamicsWinsIfReturned ==
  Recognized /\ Ambiguous(last.arg) /\ last.res.kind # "Fault" =>
    \A r \in MostSpecific(last.arg) :
      last.res.kind = "Ok" /\ last.res.handler = HandlerOf(r)

\* The registrations that ended in the state a match names.
Winners == {k \in 1..Len(added) : added[k].state = last.res.state}

\* The segments of path at the dynamic positions of route, left to right.
DynamicSegments(route, path) ==
  LET ps == Segments(route)
      is == Segments(path)
      RECURSIVE from(_)
      from(i) == IF i > Len(ps) THEN <<>>
                 ELSE (IF IsDynamic(ps[i]) THEN <<is[i]>> ELSE <<>>) \o from(i + 1)
  IN  from(1)

\* The names recorded for a state: those of the last pattern registered
\* for it, left to right.
RecordedNames ==
  LET k == CHOOSE w \in Winners : \A j \in Winners : j <= w
      ps == Segments(added[k].route)
      RECURSIVE from(_)
      from(i) == IF i > Len(ps) THEN <<>>
                 ELSE (IF IsDynamic(ps[i]) THEN <<Tail(ps[i])>> ELSE <<>>) \o from(i + 1)
  IN  from(1)

\* The map that holds values[i] under names[i] (the later i for a name
\* that is recorded twice).
Paired(names, values) ==
  [name \in {names[i] : i \in 1..Len(names)} |->
     values[CHOOSE i \in 1..Len(names) :
              names[i] = name /\ \A j \in 1..Len(names) : names[j] = name => j <= i]]

\* C3: the captures of a match are the whole segments of the input at the
\* dynamic positions of the winning pattern, left to right, and the i-th
\* recorded name is paired with the i-th of them.
C3_ParamsAreDynamicSegments ==
  Recognized /\ last.res.kind = "Ok" =>
    \A k \in Winners :
      /\ last.res.captures = DynamicSegments(added[k].route, last.arg)
      /\ last.res.params = Paired(RecordedNames, DynamicSegments(added[k].route, last.arg))

\* C3 for the inputs of one-byte characters.
C3_ParamsAreDynamicSegmentsOneByte ==
  Recognized /\ last.res.kind = "Ok"
    /\ (\A i \in 1..Len(last.arg) : Width(last.arg[i]) = 1) =>
    \A k \in Winners :
      /\ last.res.captures = DynamicSegments(added[k].route, last.arg)
      /\ last.res.params = Paired(RecordedNames, DynamicSegments(added[k].route, last.arg))

\* C5: Router.add completes for every pattern, the empty one included.
C5_AddNeverFails == ~(last.op = "add" /\ last.res.kind = "Fault")

\* C5 apart from the empty pattern.
C5_AddOfNonEmptyCompletes ==
  last.op = "add" /\ last.arg # <<>> => last.res.kind = "Done" /\ ~failed

\* C6: recognize returns Ok or Err for every path, the empty one included,
\* and never aborts; the Err message is that of the automaton's run.
C6_RecognizeNeverFails ==
  Recognized =>
    /\ last.res.kind \in {"Ok", "Err"}
    /\ last.res.kind = "Err" => last.res.msg \in {NoTransition(Stripped(last.arg)), NoAcceptance}

\* C6 for the non-empty inputs of one-byte characters.
C6_RecognizeReturnsOneByte ==
  Recognized /\ last.arg # <<>> /\ (\A i \in 1..Len(last.arg) : Width(last.arg[i]) = 1) =>
    /\ last.res.kind \in {"Ok", "Err"}
    /\ last.res.kind = "Err" => last.res.msg \in {NoTransition(Stripped(last.arg)), NoAcceptance}

\* ----------------------------------------------------- ties (C4)

\* The handler stored for a state: that of the last registration that
\* ended in it.
StateHandler(st) ==
  LET ks == {k \in 1..Len(added) : added[k].state = st}
  IN  added[CHOOSE k \in ks : \A j \in ks : j <= k].dest

\* The runs of the automaton that spell string: every sequence of states
\* from the root in which each state is a successor of the one before and
\* matches the character read.
Runs(n, string) ==
  LET RECURSIVE upto(_)
      upto(k) ==
        IF k = 0 THEN {<<0>>}
        ELSE UNION {{Append(t, get(n, Last(t)).next_states[j]) :
                       j \in {i \in 1..Len(get(n, Last(t)).next_states) :
                                matches(get(n, get(n, Last(t)).next_states[i]).chars,
                                        string[k])}} :
                    t \in upto(k - 1)}
  IN  upto(Len(string))

AcceptingRuns(n, string) == {t \in Runs(n, string) : get(n, Last(t)).acceptance}

SameSpecificity(m1, m2) ==
  m1.stars = m2.stars /\ m1.dynamics = m2.dynamics /\ m1.statics = m2.statics

\* The accepting runs for the last input whose specificity equals that of
\* the match returned.
TiedRuns ==
  {t \in AcceptingRuns(nfa, Stripped(last.arg)) :
     SameSpecificity(get(nfa, Last(t)).metadata[1], get(nfa, last.res.state).metadata[1])}

\* The match returned is one of several accepting runs of equal specificity
\* that end in different states.
Tie ==
  /\ Recognized
  /\ last.res.kind = "Ok"
  /\ \E t \in TiedRuns : Last(t) # last.res.state

\* The first position of state s in the transition list ns.
Position(ns, s) ==
  CHOOSE j \in 1..Len(ns) : ns[j] = s /\ \A i \in 1..(j - 1) : ns[i] # s

\* Run p parts from run q along a transition inserted earlier than q's.
PartsEarlier(n, p, q) ==
  LET i == CHOOSE d \in 2..Len(p) : p[d] # q[d] /\ \A e \in 1..(d - 1) : p[e] = q[e]
      ns == get(n, p[i - 1]).next_states
  IN  Position(ns, p[i]) < Position(ns, q[i])

\* The registration made first among those whose state ends a tied run.
FirstTied ==
  LET ks == {k \in 1..Len(added) : \E t \in TiedRuns : Last(t) = added[k].state}
  IN  CHOOSE k \in ks : \A j \in ks : k <= j

\* C4 as claimed: in a tie the handler of the pattern registered first is
\* returned.
C4_FirstRegisteredWins ==
  Tie => last.res.handler = StateHandler(added[FirstTied].state)

\* C4 amended: in a tie the match returned is that of the run discovered
\* last, the run that parts from every other tied run along the transition
\* inserted later; with two registrations that tie, it is the second one.
C4_LastDiscoveredWins ==
  Tie =>
    /\ \A t \in TiedRuns :
         Last(t) # last.res.state =>
           \E w \in TiedRuns : Last(w) = last.res.state /\ PartsEarlier(nfa, t, w)
    /\ last.res.handler = StateHandler(last.res.state)
    /\ Len(added) = 2 => last.res.handler = added[2].dest

\* C4 witness: '/:x/a' then '/a/:y' tie on 'a/a', and the second wins.
C4_TieReached ==
  /\ Tie
  /\ Len(added) = 2
  /\ added[1].route = <<Slash, Colon, "x", Slash, "a">>
  /\ added[2].route = <<Slash, "a", Slash, Colon, "y">>
  /\ added[1].dest # added[2].dest
  /\ last.res.handler = added[2].dest

\* ------------------------------------------------ the root pattern (C7)

Root == <<Slash>>

RootRegistered == \E k \in 1..Len(added) : added[k].route = Root

\* C7: once '/' is registered, whatever else is, recognizing '/' returns
\* the handler registered for '/' with no parameters, and the accepting
\* state of '/' is state 0.
C7_RootPattern ==
  /\ \A k \in 1..Len(added) : added[k].route = Root => added[k].state = 0
  /\ Recognized /\ last.arg = Root /\ RootRegistered =>
       /\ last.res.kind = "Ok"
       /\ last.res.handler = HandlerOf(Root)
       /\ last.res.params = Params_new
       /\ last.res.state = 0

\* C7 witness: '/' recognized with another pattern registered after it.
C7_RootRecognized ==
  /\ Recognized /\ last.arg = Root /\ last.res.kind = "Ok"
  /\ Len(added) = 2
  /\ added[1].route = Root
  /\ added[2].route = <<Slash, Colon, "x">>

\* ------------------------------------------------ edge sharing (C9, C10)

\* The classes a pattern asks put for, in order.
GuardSeq(route) ==
  LET ps == Segments(route)
      RECURSIVE literal(_)
      literal(seg) == IF seg = <<>> THEN <<>>
                      ELSE <<valid_char(Head(seg))>> \o literal(Tail(seg))
      RECURSIVE from(_)
      from(i) == IF i > Len(ps) THEN <<>>
                 ELSE (IF i > 1 THEN <<valid_char(Slash)>> ELSE <<>>)
                      \o (IF IsDynamic(ps[i]) THEN <<invalid_char(Slash)>>
                          ELSE literal(ps[i]))
                      \o from(i + 1)
  IN  from(1)

\* The non-empty prefixes of the class sequences of the registered patterns.
GuardPrefixes ==
  UNION {{SubSeq(GuardSeq(added[k].route), 1, j) :
            j \in 1..Len(GuardSeq(added[k].route))} : k \in 1..Len(added)}

\* The successors of state s whose class is class.
Successors(n, s, class) ==
  {get(n, s).next_states[j] : j \in {i \in 1..Len(get(n, s).next_states) :
                                       get(n, get(n, s).next_states[i]).chars = class}}

\* The states a sequence of classes leads to from state s.
RECURSIVE Walk(_, _, _)
Walk(n, s, guards) ==
  IF guards = <<>> THEN {s}
  ELSE UNION {Walk(n, t, Tail(guards)) : t \in Successors(n, s, Head(guards))}

\* C9: no state has two distinct successors of equal class; a pattern's
\* class sequence leads to one state, the one its registration returned
\* (so a common prefix is a common sequence of states); and the arena holds
\* the root and one state for each distinct non-empty prefix.
C9_EdgeSharing ==
  /\ \A s \in 0..(Len(nfa) - 1) :
       \A j, k \in 1..Len(get(nfa, s).next_states) :
         get(nfa, s).next_states[j] # get(nfa, s).next_states[k] =>
           get(nfa, get(nfa, s).next_states[j]).chars
             # get(nfa, get(nfa, s).next_states[k]).chars
  /\ \A k \in 1..Len(added) :
       Walk(nfa, 0, GuardSeq(added[k].route)) = {added[k].state}
  /\ Len(nfa) = 1 + Cardinality(GuardPrefixes)

\* C9 witness: two patterns with the common prefix 'a/' are registered and
\* the states of the prefix are shared.
C9_PrefixShared ==
  /\ Len(added) = 2
  /\ added[1].route = <<"a", Slash, "a">>
  /\ added[2].route = <<Slash, "a", Slash, Colon, "y">>
  /\ Len(nfa) = 5

\* C10: no transition list holds the same state twice.
C10_NoDuplicateTransitions ==
  \A s \in 0..(Len(nfa) - 1) :
    \A j, k \in 1..Len(get(nfa, s).next_states) :
      j # k => get(nfa, s).next_states[j] # get(nfa, s).next_states[k]

\* C10 for the states that are not dynamic-segment states.
C10_NoDuplicateTransitionsOfStatic ==
  \A s \in 0..(Len(nfa) - 1) :
    ~get(nfa, s).start_capture =>
      \A j, k \in 1..Len(get(nfa, s).next_states) :
        j # k => get(nfa, s).next_states[j] # get(nfa, s).next_states[k]

\* ------------------------------------------------ read-only (C8)

Processed == Recognized /\ last.arg # <<>>

Prefix(s, k) == SubSeq(s, 1, k)

\* Some character of string cannot be consumed: no run spells the prefix
\* that ends with it.
Stuck(n, string) == \E k \in 1..Len(string) : Runs(n, Prefix(string, k)) = {}

\* C11: process returns exactly one of a match, the 'no transition' error
\* and the 'exhausted' error; the first error if and only if some character
\* cannot be consumed by any live trace, the second if and only if every
\* character was consumed and no live trace ends in an accepting state.
C11_ErrorKinds ==
  Processed =>
    /\ last.res.kind \in {"Ok", "Err"}
    /\ last.res.kind = "Err" => last.res.msg \in {NoTransition(Stripped(last.arg)), NoAcceptance}
    /\ (last.res.kind = "Err" /\ last.res.msg = NoTransition(Stripped(last.arg)))
         <=> Stuck(nfa, Stripped(last.arg))
    /\ (last.res.kind = "Err" /\ last.res.msg = NoAcceptance)
         <=> /\ ~Stuck(nfa, Stripped(last.arg))
             /\ AcceptingRuns(nfa, Stripped(last.arg)) = {}

\* C11 apart from the failed calls: the two errors are returned exactly in
\* their cases, and a call that finds an accepting trace returns a match
\* unless it fails while extracting the captures.
C11_ErrorKindsIfReturned ==
  Processed =>
    /\ last.res.kind = "Err" => last.res.msg \in {NoTransition(Stripped(last.arg)), NoAcceptance}
    /\ (last.res.kind = "Err" /\ last.res.msg = NoTransition(Stripped(last.arg)))
         <=> Stuck(nfa, Stripped(last.arg))
    /\ (last.res.kind = "Err" /\ last.res.msg = NoAcceptance)
         <=> /\ ~Stuck(nfa, Stripped(last.arg))
             /\ AcceptingRuns(nfa, Stripped(last.arg)) = {}
    /\ last.res.kind \in {"Ok", "Fault"}
         <=> AcceptingRuns(nfa, Stripped(last.arg)) # {}
    /\ last.res.kind = "Fault" => \E i \in 1..Len(last.arg) : Width(last.arg[i]) > 1

\* ------------------------------------------ the selected trace (C12)

\* The accepting run that ends in the state of the match returned (a
\* pattern trie has one run per input and final state).
WinningRuns == {t \in AcceptingRuns(nfa, Stripped(last.arg)) : Last(t) = last.res.state}

\* Run t is ranked above run w by the comparator of the traces.
RankedAbove(n, t, w) == sort(n, t, w) = "Greater"

\* The accepting traces of the last generation in the order process finds
\* them, and the positions of those no other one is ranked above.
Found == accepting(nfa, process_chars(nfa, Stripped(last.arg), 1, <<<<0>>>>).traces)

Top(found) == {k \in 1..Len(found) : \A j \in 1..Len(found) : ~RankedAbove(nfa, found[j], found[k])}

\* C12: the trace process returns is never ranked below another accepting
\* trace, and among the accepting traces ranked equal to it, it is the one
\* discovered last: it is the last top-ranked trace of the final
\* generation, and every equally ranked run that ends elsewhere parts from
\* it along a transition inserted earlier.
C12_LastOfStableSort ==
  Processed /\ last.res.kind = "Ok" =>
    \A runs \in {AcceptingRuns(nfa, Stripped(last.arg))} :
      \A found \in {Found} :
        \A top \in {Top(found)} :
          /\ \A w \in runs :
               Last(w) = last.res.state =>
                 \A t \in runs :
                   /\ ~RankedAbove(nfa, t, w)
                   /\ t # w /\ sort(nfa, t, w) = "Equal" => PartsEarlier(nfa, t, w)
          /\ \E k \in top :
               /\ \A j \in top : j <= k
               /\ Last(found[k]) = last.res.state
          /\ Cardinality({w \in runs : Last(w) = last.res.state}) = 1

\* C12 witness: a match whose trace was discovered before an accepting
\* trace of lower rank, so that the sort decided.
C12_SortDecided ==
  /\ Processed /\ last.res.kind = "Ok"
  /\ \E w \in WinningRuns :
       \E t \in AcceptingRuns(nfa, Stripped(last.arg)) :
         RankedAbove(nfa, w, t) /\ PartsEarlier(nfa, w, t)

\* ------------------------------------------ the live traces (C13)

\* The live traces after the first k characters of string, in the order
\* process_char produced them (none if a character could not be consumed).
Generation(n, string, k) == process_chars(n, Prefix(string, k), 1, <<<<0>>>>).traces

\* C13: in every generation of a run of process no two live traces are the
\* same sequence of states, so there are no more live traces than runs of
\* the automaton that spell the prefix consumed.
C13_NoIdenticalTraces ==
  Processed =>
    \A k \in 0..Len(Stripped(last.arg)) :
      \A g \in {Generation(nfa, Stripped(last.arg), k)} :
        /\ \A i, j \in 1..Len(g) : i # j => g[i] # g[j]
        /\ Len(g) <= Cardinality(Runs(nfa, Prefix(Stripped(last.arg), k)))

\* C13 for the automata in which no transition list holds a state twice;
\* and in every automaton the live traces are runs that spell the prefix,
\* each run being live.
C13_NoIdenticalTracesWithoutDuplicates ==
  Processed =>
    \A k \in 0..Len(Stripped(last.arg)) :
      \A g \in {Generation(nfa, Stripped(last.arg), k)} :
        /\ {g[i] : i \in 1..Len(g)} = Runs(nfa, Prefix(Stripped(last.arg), k))
        /\ C10_NoDuplicateTransitions =>
             /\ \A i, j \in 1..Len(g) : i # j => g[i] # g[j]
             /\ Len(g) = Cardinality(Runs(nfa, Prefix(Stripped(last.arg), k)))

\* ------------------------------------------ accepting states (C14)

States == 0..(Len(nfa) - 1)

AcceptingStates == {s \in States : get(nfa, s).acceptance}

MetadataStates == {s \in States : get(nfa, s).metadata # None}

\* C14: the accepting states, the states that carry metadata and the keys
\* of the handler table are one set (the final states of the registrations
\* made); so every accepting run of a recognize call ends in a state with
\* metadata and a handler, and the handler returned is the one stored for
\* the winning state.
C14_AcceptingMetadataHandlers ==
  /\ AcceptingStates = MetadataStates
  /\ MetadataStates = DOMAIN handlers
  /\ DOMAIN handlers = {added[k].state : k \in 1..Len(added)}
  /\ Processed =>
       /\ \A t \in AcceptingRuns(nfa, Stripped(last.arg)) :
            get(nfa, Last(t)).metadata # None /\ Last(t) \in DOMAIN handlers
       /\ last.res.kind = "Ok" =>
            /\ last.res.state \in AcceptingStates
            /\ last.res.handler = handlers[last.res.state]

\* C14 witness: a match returned by a router with two accepting states, one
\* of them the root.
C14_TwoAcceptingStates ==
  /\ Processed /\ last.res.kind = "Ok"
  /\ Cardinality(AcceptingStates) = 2
  /\ 0 \in AcceptingStates
  /\ last.res.state # 0

\* ------------------------------------------ captures and names (C15)

\* C15: a match returned carries as many captures as the metadata of the
\* winning state holds parameter names, and every capture is stored under
\* a name.
C15_CapturesMatchNames ==
  Recognized /\ last.res.kind = "Ok" =>
    /\ Len(last.res.captures) = Len(get(nfa, last.res.state).metadata[1].param_names)
    /\ Len(last.res.captures) = get(nfa, last.res.state).metadata[1].dynamics
    /\ DOMAIN last.res.params =
         {get(nfa, last.res.state).metadata[1].param_names[i] :
            i \in 1..Len(last.res.captures)}

\* C15 witness: a match with a capture in a state whose metadata was
\* written twice, by two patterns that differ in the parameter name.
C15_CaptureOverwritten ==
  /\ Recognized /\ last.res.kind = "Ok"
  /\ Len(last.res.captures) = 1
  /\ Cardinality(Winners) = 2
  /\ added[1].route # added[2].route

\* ------------------------------------------ segment counts (C16)

\* The metadata of the state a run ends in.
MetadataOf(n, t) == get(n, Last(t)).metadata[1]

\* C16: every accepting run for an input ends in a state whose statics and
\* dynamics add up to the number of segments of the input and whose stars
\* are 0; so two accepting runs with equal dynamics have equal statics, and
\* the comparator ranks two accepting runs by their dynamics alone.
C16_SegmentCountConstant ==
  Processed =>
    \A runs \in {AcceptingRuns(nfa, Stripped(last.arg))} :
      \A t \in runs :
        /\ MetadataOf(nfa, t).statics + MetadataOf(nfa, t).dynamics
             = Len(Segments(last.arg))
        /\ MetadataOf(nfa, t).stars = 0
        /\ \A u \in runs :
             /\ MetadataOf(nfa, t).dynamics = MetadataOf(nfa, u).dynamics
                  => MetadataOf(nfa, t).statics = MetadataOf(nfa, u).statics
             /\ sort(nfa, t, u) = "Greater"
                  <=> MetadataOf(nfa, t).dynamics < MetadataOf(nfa, u).dynamics

\* C16 witness: two accepting runs for one input that end in different
\* states with equal dynamics, so that the comparator looks at the statics.
C16_EqualDynamicsCompete ==
  /\ Processed /\ last.res.kind = "Ok"
  /\ \E t, u \in AcceptingRuns(nfa, Stripped(last.arg)) :
       /\ Last(t) # Last(u)
       /\ MetadataOf(nfa, t).dynamics = MetadataOf(nfa, u).dynamics
       /\ MetadataOf(nfa, t).dynamics = 1

\* ------------------------------------------ registering again (C17)

\* The step is an add that returned, the call before it was an add of the
\* same pattern with the same handler.
AddedAgain ==
  /\ last.op = "add" /\ last.res.kind = "Done"
  /\ last'.op = "add" /\ last'.res.kind = "Done"
  /\ last'.arg = last.arg
  /\ last'.res.handler = last.res.handler

\* C17: registering a pattern with the same handler a second time leaves
\* the automaton and the handler table as the first registration made them.
C17_AddIdempotent ==
  [][AddedAgain => nfa' = nfa /\ handlers' = handlers]_vars

\* Pattern route has a dynamic segment.
HasDynamic(route) == \E i \in 1..Len(Segments(route)) : IsDynamic(Segments(route)[i])

\* C17 apart from the self-loops: the second registration returns the same
\* state and leaves the handler table, the number of states and every
\* field of every state as they were, but for the transition lists of the
\* dynamic-segment states; a pattern with no dynamic segment leaves the
\* whole automaton as it was.
C17_AddIdempotentButLoops ==
  [][AddedAgain =>
       /\ handlers' = handlers
       /\ last'.res.state = last.res.state
       /\ Len(nfa') = Len(nfa)
       /\ \A s \in States :
            /\ [get(nfa', s) EXCEPT !.next_states = <<>>]
                 = [get(nfa, s) EXCEPT !.next_states = <<>>]
            /\ ~get(nfa, s).start_capture
                 => get(nfa', s).next_states = get(nfa, s).next_states
       /\ ~HasDynamic(last.arg) => nfa' = nfa]_vars

\* ------------------------------------------ the arena (C18)

\* The arena as it must be in every state: the state at position i has
\* identity i, the root matches every character, every transition leads to
\* a state of the arena other than the root.
ArenaSound(n) ==
  /\ Len(n) >= 1
  /\ \A i \in 0..(Len(n) - 1) : get(n, i).index = i
  /\ \A c \in PathChars \cup {Colon, "x", "y"} : matches(get(n, 0).chars, c)
  /\ get(n, 0).chars = any
  /\ \A i \in 0..(Len(n) - 1) :
       \A j \in 1..Len(get(n, i).next_states) :
         get(n, i).next_states[j] \in 1..(Len(n) - 1)

\* The arena n grown into m: no state is removed, no guard changes, no
\* flag or metadata that is set is cleared, no transition is taken out.
ArenaGrown(n, m) ==
  /\ Len(m) >= Len(n)
  /\ \A i \in 0..(Len(n) - 1) :
       /\ get(m, i).index = get(n, i).index
       /\ get(m, i).chars = get(n, i).chars
       /\ get(n, i).acceptance => get(m, i).acceptance
       /\ get(n, i).start_capture => get(m, i).start_capture
       /\ get(n, i).end_capture => get(m, i).end_capture
       /\ get(n, i).metadata # None => get(m, i).metadata # None
       /\ Len(get(m, i).next_states) >= Len(get(n, i).next_states)
       /\ SubSeq(get(m, i).next_states, 1, Len(get(n, i).next_states))
            = get(n, i).next_states

\* C18: the arena is append-only with stable identities: in every state it
\* is sound, and every step grows it.
C18_ArenaAppendOnly == [](ArenaSound(nfa)) /\ [][ArenaGrown(nfa, nfa')]_vars

\* C18 witness: a second registration has added states to an arena in
\* which a flag was set and transitions were made.
C18_ArenaHasGrown ==
  /\ Len(added) = 2
  /\ added[1].state < added[2].state
  /\ Len(nfa) > added[2].state
  /\ get(nfa, 1).start_capture
  /\ get(nfa, added[1].state).acceptance
  /\ get(nfa, added[1].state).next_states # <<>>

\* ------------------------------------------ open and closed captures (C19)

\* C19: every state starts a capture exactly if it ends one, and the root
\* does neither; so on every run of a recognize call a state that ends a
\* capture is at a position after the first and starts one too: the capture
\* it closes is open, and no capture starts at position 0.
C19_CapturesOpenBeforeClose ==
  /\ \A s \in States : get(nfa, s).start_capture = get(nfa, s).end_capture
  /\ ~get(nfa, 0).start_capture /\ ~get(nfa, 0).end_capture
  /\ Processed =>
       \A t \in Runs(nfa, Stripped(last.arg)) :
         /\ t[1] = 0
         /\ \A p \in 1..Len(t) :
              get(nfa, t[p]).start_capture \/ get(nfa, t[p]).end_capture
                => /\ p > 1
                   /\ get(nfa, t[p]).start_capture
                   /\ p - 2 >= 0

\* C19 witness: a match whose capture was closed before the last position
\* of the trace.
C19_CaptureClosedInside ==
  /\ Processed /\ last.res.kind = "Ok"
  /\ Len(last.res.captures) = 1
  /\ ~get(nfa, last.res.state).end_capture

\* ------------------------------------------ the same structure (C20)

\* The structure of a pattern: its segments, with every dynamic segment
\* replaced by its marker.  Two patterns of one structure differ in nothing
\* but the names of their parameters.
Shape(route) ==
  LET RECURSIVE from(_)
      from(ps) == IF ps = <<>> THEN <<>>
                  ELSE <<IF IsDynamic(Head(ps)) THEN <<Colon>> ELSE Head(ps)>>
                       \o from(Tail(ps))
  IN  from(Segments(route))

\* The names of the parameters of a pattern, left to right.
Names(route) ==
  LET RECURSIVE from(_)
      from(ps) == IF ps = <<>> THEN <<>>
                  ELSE (IF IsDynamic(Head(ps)) THEN <<Tail(Head(ps))>> ELSE <<>>)
                       \o from(Tail(ps))
  IN  from(Segments(route))

\* For every registration, the last registration of a pattern of the same
\* structure, the shapes of the registered patterns being shapes.
LastLike(shapes) ==
  [k \in DOMAIN shapes |->
     CHOOSE j \in DOMAIN shapes :
       shapes[j] = shapes[k] /\ \A i \in DOMAIN shapes : shapes[i] = shapes[k] => i <= j]

\* C20: patterns that differ only in their parameter names end in the same
\* accepting state, which holds the handler and the names of the one
\* registered last; a match returned carries that handler and those names;
\* after '/:x' with h1 and '/:' with h2, recognizing '/a' returns h2 with
\* the parameter named by the second pattern.
C20_LaterRegistrationReplaces ==
  \A shapes \in {[k \in 1..Len(added) |-> Shape(added[k].route)]} :
    \A lastlike \in {LastLike(shapes)} :
      /\ \A j, k \in 1..Len(added) :
           shapes[j] = shapes[k] <=> added[j].state = added[k].state
      /\ \A k \in 1..Len(added) :
           /\ handlers[added[k].state] = added[lastlike[k]].dest
           /\ get(nfa, added[k].state).metadata[1].param_names
                = Names(added[lastlike[k]].route)
      /\ Recognized /\ last.res.kind = "Ok" =>
           \A k \in 1..Len(added) :
             added[k].state = last.res.state =>
               \A names \in {Names(added[lastlike[k]].route)} :
                 /\ last.res.handler = added[lastlike[k]].dest
                 /\ DOMAIN last.res.params = {names[i] : i \in 1..Len(names)}
      /\ /\ Recognized
         /\ Len(added) = 2
         /\ added[1].route = <<Slash, Colon, "x">>
         /\ added[2].route = <<Slash, Colon>>
         /\ last.arg = <<Slash, "a">>
         => /\ last.res.kind = "Ok"
            /\ last.res.handler = added[2].dest
            /\ last.res.params = [name \in {<<>>} |-> <<"a">>]

\* C20 witness: '/:x' with one handler, then '/:' with another, and '/a'
\* recognized with the second handler.
C20_Replaced ==
  /\ Recognized /\ last.res.kind = "Ok"
  /\ Len(added) = 2
  /\ added[1].route = <<Slash, Colon, "x">>
  /\ added[2].route = <<Slash, Colon>>
  /\ added[1].dest = "h1" /\ added[2].dest = "h2"
  /\ last.arg = <<Slash, "a">>
  /\ last.res.handler = "h2"

=============================================================================
